---------------------------- MODULE Spec2Model ----------------------------
(***************************************************************************)
(* A model of src/app.py: the RSI computation (calculate_rsi), the        *)
(* per-symbol retrieval loop (get_stock_data) and the report step of main. *)
(*                                                                         *)
(* Numbers.  The program computes with IEEE double precision floats.  The *)
(* model keeps the three special values the code can produce (NaN, +inf,   *)
(* -inf) and represents every finite value as an exact fraction n/d in     *)
(* lowest terms with d > 0.  Rounding error of the binary representation   *)
(* and the sign of zero are not modelled.                                  *)
(*                                                                         *)
(* Indices.  Python indexes from 0, TLA+ sequences from 1: entry i of a    *)
(* pandas Series is entry i+1 of the sequence that models it.              *)
(***************************************************************************)
EXTENDS Integers, Sequences, FiniteSets

(***************************************************************************)
(* Bounds of the model                                                     *)
(***************************************************************************)
\* longest symbol list handed to get_stock_data
MaxSymbols == 3
\* longest short price history the provider returns
MaxShort == 1
\* length of the flat run that opens a long price history
PadLen == 13
\* longest price series handed directly to calculate_rsi
MaxLen == 5
\* largest window handed directly to calculate_rsi
MaxWindow == 3

(***************************************************************************)
(* Floating point values                                                   *)
(***************************************************************************)
Abs(n) == IF n < 0 THEN -n ELSE n

Sign(n) == IF n < 0 THEN -1 ELSE IF n > 0 THEN 1 ELSE 0

RECURSIVE Gcd(_, _)
Gcd(a, b) == IF b = 0 THEN a ELSE Gcd(b, a % b)

\* the value n/d; d = 0 gives +inf, -inf or NaN by the sign of n
Norm(n, d) ==
    IF d = 0 THEN [n |-> Sign(n), d |-> 0]
    ELSE LET g == Gcd(Abs(n), Abs(d))
             s == Sign(d)
         IN  [n |-> (s * n) \div g, d |-> (s * d) \div g]

Num(k) == [n |-> k, d |-> 1]

NaN == [n |-> 0, d |-> 0]

IsNaN(x) == x.d = 0 /\ x.n = 0

Neg(x) == [n |-> -x.n, d |-> x.d]

Add(a, b) ==
    IF a.d = 0 /\ b.d = 0
    THEN (IF a.n = b.n THEN a ELSE NaN)
    ELSE Norm(a.n * b.d + b.n * a.d, a.d * b.d)

Sub(a, b) == Add(a, Neg(b))

Mul(a, b) == Norm(a.n * b.n, a.d * b.d)

\* x / 0 is +inf or -inf for x # 0 and NaN for 0 / 0 (numpy float64 division)
Div(a, b) == Norm(a.n * b.d, a.d * b.n)

\* a < b; every comparison with NaN is false
Lt(a, b) ==
    /\ ~IsNaN(a)
    /\ ~IsNaN(b)
    /\ IF a.d = 0 /\ b.d = 0 THEN a.n < b.n ELSE a.n * b.d < b.n * a.d

Gt(a, b) == Lt(b, a)

Le(a, b) == ~IsNaN(a) /\ ~IsNaN(b) /\ ~Lt(b, a)

\* the integer nearest to n/d (d > 0), ties to the even one
RoundHalfEven(n, d) ==
    LET q == n \div d
        r == n - q * d
    IN  IF 2 * r < d THEN q
        ELSE IF 2 * r > d THEN q + 1
        ELSE IF q % 2 = 0 THEN q ELSE q + 1

\* round(x, 2)
Round2(x) ==
    IF x.d = 0 THEN x ELSE Norm(RoundHalfEven(100 * x.n, x.d), 100)

(***************************************************************************)
(* calculate_rsi                                                           *)
(***************************************************************************)
\* Series.diff(): the first entry has no predecessor and is NaN
diff(data) ==
    [i \in 1..Len(data) |-> IF i = 1 THEN NaN ELSE Sub(data[i], data[i - 1])]

\* delta.where(delta > 0, 0): NaN > 0 is false, so a NaN entry becomes 0
gain(delta) ==
    [i \in DOMAIN delta |-> IF Gt(delta[i], Num(0)) THEN delta[i] ELSE Num(0)]

\* the loss without its sign turned: delta.where(delta < 0, 0)
loss_unnegated(delta) ==
    [i \in DOMAIN delta |-> IF Lt(delta[i], Num(0)) THEN delta[i] ELSE Num(0)]

\* -delta.where(delta < 0, 0)
loss(delta) ==
    [i \in DOMAIN delta |->
        Neg(IF Lt(delta[i], Num(0)) THEN delta[i] ELSE Num(0))]

RECURSIVE SumRange(_, _, _)
SumRange(x, lo, hi) ==
    IF lo > hi THEN Num(0) ELSE Add(SumRange(x, lo, hi - 1), x[hi])

\* Series.rolling(window=window).mean(): NaN until a full window of
\* observations is seen, and NaN while the window holds a NaN
rolling_mean(x, window) ==
    [i \in DOMAIN x |->
        IF i < window THEN NaN
        ELSE Div(SumRange(x, i - window + 1, i), Num(window))]

\* the quotient the wrong way round: avg_loss / avg_gain
relative_strength_swapped(avg_gain, avg_loss) ==
    [i \in DOMAIN avg_gain |-> Div(avg_loss[i], avg_gain[i])]

relative_strength(avg_gain, avg_loss) ==
    [i \in DOMAIN avg_gain |-> Div(avg_gain[i], avg_loss[i])]

rsi_of(rs) ==
    [i \in DOMAIN rs |->
        Sub(Num(100), Div(Num(100), Add(Num(1), rs[i])))]

calculate_rsi(data, window) ==
    LET delta == diff(data)
        avg_gain == rolling_mean(gain(delta), window)
        avg_loss == rolling_mean(loss(delta), window)
    IN  rsi_of(relative_strength(avg_gain, avg_loss))

(***************************************************************************)
(* get_nifty50_stocks: the fallback list                                   *)
(***************************************************************************)
FallbackList ==
    << "RELIANCE", "TCS", "HDFCBANK", "ICICIBANK", "HINDUNILVR",
       "INFY", "HDFC", "ITC", "KOTAKBANK", "LT", "AXISBANK",
       "SBIN", "BAJFINANCE", "BHARTIARTL", "ASIANPAINT", "MARUTI",
       "HCLTECH", "TITAN", "TATAMOTORS", "SUNPHARMA", "ULTRACEMCO",
       "BAJAJFINSV", "WIPRO", "NESTLEIND", "NTPC", "POWERGRID",
       "ONGC", "TECHM", "ADANIPORTS", "GRASIM", "JSWSTEEL",
       "HINDALCO", "TATASTEEL", "M&M", "INDUSINDBK", "DRREDDY",
       "BPCL", "CIPLA", "EICHERMOT", "COALINDIA", "BRITANNIA",
       "ADANIENT", "HDFCLIFE", "SBILIFE", "UPL", "HEROMOTOCO",
       "DIVISLAB", "APOLLOHOSP", "BAJAJ-AUTO", "TATACONSUM" >>

(***************************************************************************)
(* State                                                                   *)
(***************************************************************************)
VARIABLES
    data,       \* the price series of a direct call of calculate_rsi
    window,     \* its window
    rsi,        \* the series it returned
    cpc,        \* "idle"; "call" before and "ret" after the direct call
    symbols,    \* the symbol list main got from get_nifty50_stocks
    idx,        \* symbols of the list the loop of get_stock_data has left
    stock_data, \* the result list of get_stock_data
    fetched,    \* what ticker.history did for each symbol left behind
    sleeps,     \* calls of time.sleep made so far
    printed,    \* symbols of the "Error fetching data for ..." lines
    pc,         \* "idle", "main", "loop", "returned", "done"
    report,     \* what main printed: "none", "nolist", "failed", "table"
    table,      \* the rows of the table sorted by RSI
    overbought, \* the rows of the overbought table
    oversold    \* the rows of the oversold table

rvars == <<data, window, rsi, cpc>>

mvars ==
    <<symbols, idx, stock_data, fetched, sleeps, printed, pc, report,
      table, overbought, oversold>>

vars == <<rvars, mvars>>

SeqsUpTo(S, n) == UNION {[1..k -> S] : k \in 0..n}

\* hist['Close'] of a history with the given closing prices
ToSeries(closes) == [i \in 1..Len(closes) |-> Num(closes[i])]

(***************************************************************************)
(* A direct call of calculate_rsi                                          *)
(***************************************************************************)
\* closing prices of the series handed directly to calculate_rsi
RsiPrices == {10, 11, 12, 13, 14}

IdleRsi == data = <<>> /\ window = 1 /\ rsi = <<>> /\ cpc = "idle"

IdleMain ==
    /\ symbols = <<>>
    /\ idx = 0
    /\ stock_data = <<>>
    /\ fetched = <<>>
    /\ sleeps = 0
    /\ printed = <<>>
    /\ pc = "idle"
    /\ report = "none"
    /\ table = <<>>
    /\ overbought = <<>>
    /\ oversold = <<>>

InitRsi ==
    /\ data \in {ToSeries(c) : c \in SeqsUpTo(RsiPrices, MaxLen)}
    /\ window \in 1..MaxWindow
    /\ rsi = <<>>
    /\ cpc = "call"
    /\ IdleMain

CallRsi ==
    /\ cpc = "call"
    /\ rsi' = calculate_rsi(data, window)
    /\ cpc' = "ret"
    /\ UNCHANGED <<data, window, mvars>>

NextRsi == CallRsi

SpecRsi == InitRsi /\ [][NextRsi]_vars

(***************************************************************************)
(* The price history provider                                              *)
(***************************************************************************)
\* closing prices the provider returns
Closes == {0, 602, 1405}

FlatRun(c, n) == [i \in 1..n |-> c]

\* histories of a close or two (or none), of a symbol hardly traded
ShortHistories == SeqsUpTo({0, 602}, MaxShort)

\* histories of about a month of daily bars: a flat run, then two closes
LongHistories == {FlatRun(602, PadLen) \o <<a, b>> : a, b \in Closes}

Histories == {ToSeries(c) : c \in ShortHistories \cup LongHistories}

\* ticker.history raised
Raised == [ok |-> FALSE, hist |-> <<>>]

\* ticker.history returned hist['Close'] = h
Returned(h) == [ok |-> TRUE, hist |-> h]

(***************************************************************************)
(* get_stock_data                                                          *)
(***************************************************************************)
DefaultWindow == 14

\* Series.iloc[-k] raises IndexError unless the series has k entries
ilocInBounds(s, k) == k <= Len(s)

ilocFromEnd(s, k) == s[Len(s) + 1 - k]

daily_change(cmp, prev_close) ==
    Mul(Div(Sub(cmp, prev_close), prev_close), Num(100))

\* the dictionary appended for a symbol whose history has two closes or more
record(s, h) ==
    LET cmp == ilocFromEnd(h, 1)
        prev_close == ilocFromEnd(h, 2)
        last_rsi == ilocFromEnd(calculate_rsi(h, DefaultWindow), 1)
    IN  [Symbol |-> s,
         CMP |-> Round2(cmp),
         DailyChange |-> Round2(daily_change(cmp, prev_close)),
         RSI |-> Round2(last_rsi)]

symbol == symbols[idx + 1]

InLoop == pc = "loop" /\ idx < Len(symbols)

\* an except clause that prints the error and raises it again
OnExceptionAbort(f) ==
    /\ printed' = Append(printed, symbol)
    /\ fetched' = Append(fetched, f)
    /\ idx' = idx + 1
    /\ pc' = "done"
    /\ UNCHANGED <<symbols, stock_data, sleeps, report, table, overbought,
                   oversold, rvars>>

\* the except clause: print the error and go on with the next symbol
OnException(f) ==
    /\ printed' = Append(printed, symbol)
    /\ fetched' = Append(fetched, f)
    /\ idx' = idx + 1
    /\ pc' = "loop"
    /\ UNCHANGED <<symbols, stock_data, sleeps, report, table, overbought,
                   oversold, rvars>>

\* the end of the try block: time.sleep(0.2), then the next symbol
Pause(f) ==
    /\ sleeps' = sleeps + 1
    /\ fetched' = Append(fetched, f)
    /\ idx' = idx + 1
    /\ pc' = "loop"
    /\ UNCHANGED <<symbols, printed, report, table, overbought, oversold,
                   rvars>>

\* ticker.history raises
IterFetchRaises ==
    /\ InLoop
    /\ OnException(Raised)

\* hist.empty: nothing is appended
IterEmpty ==
    /\ InLoop
    /\ \E h \in Histories :
        /\ h = <<>>
        /\ stock_data' = stock_data
        /\ Pause(Returned(h))

\* hist['Close'].iloc[-2] raises IndexError
IterIndexError ==
    /\ InLoop
    /\ \E h \in Histories :
        /\ h # <<>>
        /\ ~ilocInBounds(h, 2)
        /\ OnException(Returned(h))

\* the record put in front of the list: stock_data.insert(0, ...)
IterRecordPrepend ==
    /\ InLoop
    /\ \E h \in Histories :
        /\ h # <<>>
        /\ ilocInBounds(h, 2)
        /\ stock_data' = <<record(symbol, h)>> \o stock_data
        /\ Pause(Returned(h))

IterRecord ==
    /\ InLoop
    /\ \E h \in Histories :
        /\ h # <<>>
        /\ ilocInBounds(h, 2)
        /\ stock_data' = Append(stock_data, record(symbol, h))
        /\ Pause(Returned(h))

\* return stock_data
Return ==
    /\ pc = "loop"
    /\ idx = Len(symbols)
    /\ pc' = "returned"
    /\ UNCHANGED <<symbols, idx, stock_data, fetched, sleeps, printed,
                   report, table, overbought, oversold, rvars>>

(***************************************************************************)
(* main                                                                    *)
(***************************************************************************)
OverboughtLevel == 70

OversoldLevel == 30

\* insert r behind every row whose key is not greater
RECURSIVE InsertByRSI(_, _)
InsertByRSI(rows, r) ==
    IF rows = <<>> THEN <<r>>
    ELSE IF Lt(r.RSI, rows[1].RSI) THEN <<r>> \o rows
    ELSE <<rows[1]>> \o InsertByRSI(Tail(rows), r)

RECURSIVE SortAscending(_)
SortAscending(rows) ==
    IF rows = <<>> THEN <<>>
    ELSE InsertByRSI(SortAscending(SubSeq(rows, 1, Len(rows) - 1)),
                     rows[Len(rows)])

HasRSI(r) == ~IsNaN(r.RSI)

NoRSI(r) == IsNaN(r.RSI)

Reverse(rows) == [i \in 1..Len(rows) |-> rows[Len(rows) + 1 - i]]

\* df.sort_values(by='RSI', ascending=False)
sort_values_descending(rows) ==
    Reverse(SortAscending(SelectSeq(rows, HasRSI))) \o SelectSeq(rows, NoRSI)

\* df.sort_values(by='RSI'): ascending, na_position='last'
sort_values(rows) ==
    SortAscending(SelectSeq(rows, HasRSI)) \o SelectSeq(rows, NoRSI)

IsOverbought(r) == Gt(r.RSI, Num(OverboughtLevel))

IsOversold(r) == Lt(r.RSI, Num(OversoldLevel))

Init ==
    /\ symbols \in {SubSeq(FallbackList, 1, n) : n \in 0..MaxSymbols}
    /\ idx = 0
    /\ stock_data = <<>>
    /\ fetched = <<>>
    /\ sleeps = 0
    /\ printed = <<>>
    /\ pc = "main"
    /\ report = "none"
    /\ table = <<>>
    /\ overbought = <<>>
    /\ oversold = <<>>
    /\ IdleRsi

\* if not symbols: print and return
MainNoSymbols ==
    /\ pc = "main"
    /\ symbols = <<>>
    /\ report' = "nolist"
    /\ pc' = "done"
    /\ UNCHANGED <<symbols, idx, stock_data, fetched, sleeps, printed,
                   table, overbought, oversold, rvars>>

\* stocks_data = get_stock_data(symbols)
MainCall ==
    /\ pc = "main"
    /\ symbols # <<>>
    /\ stock_data' = <<>>
    /\ pc' = "loop"
    /\ UNCHANGED <<symbols, idx, fetched, sleeps, printed, report, table,
                   overbought, oversold, rvars>>

\* the three tables of the report
MainReport ==
    /\ pc = "returned"
    /\ stock_data # <<>>
    /\ table' = sort_values(stock_data)
    /\ overbought' = SelectSeq(stock_data, IsOverbought)
    /\ oversold' = SelectSeq(stock_data, IsOversold)
    /\ report' = "table"
    /\ pc' = "done"
    /\ UNCHANGED <<symbols, idx, stock_data, fetched, sleeps, printed, rvars>>

\* "Failed to fetch stock data."
MainFailed ==
    /\ pc = "returned"
    /\ stock_data = <<>>
    /\ report' = "failed"
    /\ pc' = "done"
    /\ UNCHANGED <<symbols, idx, stock_data, fetched, sleeps, printed,
                   table, overbought, oversold, rvars>>

Next ==
    \/ MainNoSymbols
    \/ MainCall
    \/ IterFetchRaises
    \/ IterEmpty
    \/ IterIndexError
    \/ IterRecord
    \/ Return
    \/ MainReport
    \/ MainFailed

Spec == Init /\ [][Next]_vars

\* a run of main, or a direct call of calculate_rsi
InitAll == Init \/ InitRsi

NextAll == Next \/ NextRsi

SpecAll == InitAll /\ [][NextAll]_vars

(***************************************************************************)
(* Properties                                                              *)
(***************************************************************************)
\* the place of a symbol in the symbol list (the symbols are distinct)
Pos(s) == CHOOSE k \in 1..Len(symbols) : symbols[k] = s

RecordsOf(k) == {j \in 1..Len(stock_data) : stock_data[j].Symbol = symbols[k]}

InUnit(x) == Le(Num(0), x) /\ Le(x, Num(100))

Min(a, b) == IF a < b THEN a ELSE b

\* the fetch of the k-th symbol raised, or returned an empty series
FetchFailed(k) == ~fetched[k].ok \/ fetched[k].hist = <<>>

C1_State ==
    /\ Len(fetched) = idx
    /\ idx <= Len(symbols)
    /\ \A k \in 1..Len(fetched) : FetchFailed(k) => RecordsOf(k) = {}
    /\ pc = "loop" => ENABLED Next
    /\ pc \in {"returned", "done"} /\ report # "nolist" => idx = Len(symbols)

C1_Step ==
    /\ Len(fetched') = Len(fetched) + 1 /\ FetchFailed(Len(fetched))'
        => stock_data' = stock_data /\ idx' = idx + 1 /\ pc' = "loop"
    /\ pc = "loop" /\ pc' = "returned" => stock_data' = stock_data

\* C1: a fetch that raises or returns an empty series emits no record for
\* its symbol and leaves the accumulated records as they are; the loop goes
\* on with the next symbol, is never blocked, and get_stock_data returns the
\* accumulated records only after the last symbol of the list.
C1_FetchFailureIsolated == []C1_State /\ [][C1_Step]_vars

C1_Witness ==
    /\ pc = "returned"
    /\ Len(symbols) = 3
    /\ ~fetched[1].ok
    /\ fetched[2].ok /\ fetched[2].hist = <<>>
    /\ Len(stock_data) = 1
    /\ stock_data[1].Symbol = symbols[3]

\* C2: a symbol whose series holds exactly one close gets a record whose
\* CMP is that close and whose daily change is undefined.
C2_SingleCloseEmitsRecord ==
    \A k \in 1..Len(fetched) :
        fetched[k].ok /\ Len(fetched[k].hist) = 1 =>
            \E j \in RecordsOf(k) :
                /\ stock_data[j].CMP = fetched[k].hist[1]
                /\ IsNaN(stock_data[j].DailyChange)

\* C3: a symbol whose second-to-last close is 0 gets a record whose daily
\* change is undefined and whose RSI is the last entry of calculate_rsi.
C3_ZeroPreviousCloseUndefined ==
    \A k \in 1..Len(fetched) :
        LET h == fetched[k].hist IN
        fetched[k].ok /\ Len(h) >= 2 /\ h[Len(h) - 1] = Num(0) =>
            \E j \in RecordsOf(k) :
                /\ IsNaN(stock_data[j].DailyChange)
                /\ stock_data[j].RSI =
                       Round2(calculate_rsi(h, DefaultWindow)[Len(h)])

\* C4: the pause has been made exactly once for every symbol left behind,
\* whatever its outcome, when the next fetch begins or the loop ends.
C4_PauseAfterEverySymbol == pc \in {"loop", "returned"} => sleeps = idx

\* C5: the series returned has the length of the input and its first
\* `window` entries are undefined.
C5_FirstWindowEntriesUndefined ==
    cpc = "ret" =>
        /\ Len(rsi) = Len(data)
        /\ \A t \in 1..Min(window, Len(data)) : IsNaN(rsi[t])

RECURSIVE SumUp(_, _, _, _)
\* the sum of max(s * delta, 0) over the differences p[j] - p[j-1], lo <= j <= hi
SumUp(p, s, lo, hi) ==
    IF lo > hi THEN 0
    ELSE LET dlt == s * (p[hi].n - p[hi - 1].n)
         IN  SumUp(p, s, lo, hi - 1) + (IF dlt > 0 THEN dlt ELSE 0)

\* the value the formula of the RSI gives at entry t, where a full window of
\* differences ends
ExpectedRsi(p, w, t) ==
    LET avgGain == Norm(SumUp(p, 1, t - w + 1, t), w)
        avgLoss == Norm(SumUp(p, -1, t - w + 1, t), w)
    IN  IF avgLoss = Num(0) /\ avgGain = Num(0) THEN NaN
        ELSE IF avgLoss = Num(0) THEN Num(100)
        ELSE Sub(Num(100), Div(Num(100), Add(Num(1), Div(avgGain, avgLoss))))

\* C6: at every entry from `window` on, the RSI is undefined for flat
\* prices, 100 when there are gains and no loss, and 100 - 100/(1 + rs)
\* otherwise; window 3 on 10, 12, 11, 13, 14 gives 80 at entry 3.
C6_RsiFormula ==
    cpc = "ret" =>
        /\ \A t \in (window + 1)..Len(data) :
               rsi[t] = ExpectedRsi(data, window, t)
        /\ data = ToSeries(<<10, 12, 11, 13, 14>>) /\ window = 3
               => rsi[4] = Num(80)

C6_Witness ==
    /\ cpc = "ret"
    /\ data = ToSeries(<<10, 12, 11, 13, 14>>)
    /\ window = 3
    /\ rsi[4] = Num(80)

\* C7: every defined entry of the series calculate_rsi returns lies in
\* [0, 100], and so does the RSI of every record of get_stock_data.
C7_RsiWithinBounds ==
    /\ \A t \in 1..Len(rsi) : IsNaN(rsi[t]) \/ InUnit(rsi[t])
    /\ \A j \in 1..Len(stock_data) :
           IsNaN(stock_data[j].RSI) \/ InUnit(stock_data[j].RSI)

C7_Witness ==
    /\ cpc = "ret"
    /\ \E t \in 1..Len(rsi) : rsi[t] = Num(0)
    /\ \E t \in 1..Len(rsi) : rsi[t] = Num(100)
    /\ \E t \in 1..Len(rsi) : Lt(Num(0), rsi[t]) /\ Lt(rsi[t], Num(100))

\* C8: the table holds the records of the result set, those with an RSI
\* first, in ascending order of RSI, and those without one behind them.
C8_TableSortedNaNLast ==
    report = "table" =>
        /\ Len(table) = Len(stock_data)
        /\ {table[j] : j \in 1..Len(table)}
               = {stock_data[j] : j \in 1..Len(stock_data)}
        /\ \A i, j \in 1..Len(table) :
               i < j =>
                   \/ IsNaN(table[j].RSI)
                   \/ HasRSI(table[i]) /\ Le(table[i].RSI, table[j].RSI)

C8_Witness ==
    /\ report = "table"
    /\ Len(stock_data) = 3
    /\ IsNaN(stock_data[1].RSI)
    /\ Lt(stock_data[3].RSI, stock_data[2].RSI)
    /\ table = <<stock_data[3], stock_data[2], stock_data[1]>>

\* the RSI of the record of a symbol before it is rounded
FullRSI(s) ==
    LET h == fetched[Pos(s)].hist IN calculate_rsi(h, DefaultWindow)[Len(h)]

InRows(r, rows) == \E j \in 1..Len(rows) : rows[j] = r

\* C9: a record is listed as overbought when its RSI before rounding is
\* above 70 and as oversold when it is below 30, and the table is in the
\* order of the RSI before rounding.
C9_FullPrecisionClassifies ==
    report = "table" =>
        /\ \A j \in 1..Len(stock_data) :
               LET r == stock_data[j] IN
               /\ Gt(FullRSI(r.Symbol), Num(OverboughtLevel))
                      => InRows(r, overbought)
               /\ Lt(FullRSI(r.Symbol), Num(OversoldLevel))
                      => InRows(r, oversold)
        /\ \A i, j \in 1..Len(table) :
               i < j =>
                   ~Lt(FullRSI(table[j].Symbol), FullRSI(table[i].Symbol))

C10_State ==
    /\ Len(stock_data) <= idx
    /\ \A j \in 1..Len(stock_data) :
           \E k \in 1..idx :
               /\ symbols[k] = stock_data[j].Symbol
               /\ fetched[k].ok
               /\ fetched[k].hist # <<>>
    /\ \A i, j \in 1..Len(stock_data) :
           i < j => Pos(stock_data[i].Symbol) < Pos(stock_data[j].Symbol)

C10_Step ==
    \/ stock_data' = stock_data
    \/ /\ Len(stock_data') = Len(stock_data) + 1
       /\ SubSeq(stock_data', 1, Len(stock_data)) = stock_data
       /\ stock_data'[Len(stock_data')].Symbol = symbols[idx + 1]
       /\ idx' = idx + 1

\* C10: the result list holds at most one record per symbol left behind,
\* only for symbols whose fetch returned a non-empty series, in the order of
\* the symbol list; a step leaves it as it is or appends one record for the
\* symbol being processed.
C10_AppendOnlyInOrder == []C10_State /\ [][C10_Step]_vars

C10_Witness ==
    /\ idx = 3
    /\ Len(stock_data) = 2
    /\ stock_data[1].Symbol = symbols[1]
    /\ stock_data[2].Symbol = symbols[3]
=============================================================================
